---- MODULE Spec2Model ----
(***************************************************************************)
(* PC Duration Alert (nicodennis/pc-duration-alert-samsara).               *)
(*                                                                         *)
(* The model covers the duration analyzer (src/src/pc_analyzer.py), the    *)
(* alert dispatcher (src/src/alerter.py), the structured run               *)
(* (src/src/handler.py) and the inline run (src/entrypoint.py).            *)
(*                                                                         *)
(* Representation.                                                         *)
(*  - Python values are tagged records: None, str, number, list.           *)
(*  - Instants and durations are integer seconds.                          *)
(*  - A float number of hours is an integer count of hundredths of an hour *)
(*    (16.0 is 1600).  Every instant of the model is a whole number of     *)
(*    hours, so seconds / 3600 is exact in hundredths and round(h, 2) in   *)
(*    to_dict changes nothing it is applied to.                            *)
(*  - A start-time string is what datetime.fromisoformat reads from it:    *)
(*    its wall-clock reading and its UTC-offset suffix.                    *)
(***************************************************************************)
EXTENDS Integers, Sequences, FiniteSets, TLC

VARIABLES
    pc,            \* position of the call being modelled
    prog,          \* which entry point this behaviour runs
    event,         \* the event handed to main
    environ,       \* os.environ
    context,       \* the context handed to handler.main
    secrets,       \* what get_secrets() gives entrypoint.main
    config,        \* get_config(event) / the inline threshold
    analyzer,      \* PCAnalyzer.threshold_hours
    hos_clocks,    \* the records the fetch collaborator returned
    current_time,  \* the reference instant
    results,       \* analyze_all_clocks output (or the exception it raised)
    alerts,        \* get_alerts(results) / the inline alerts list
    alerter,       \* Alerter.config (AlertConfig)
    faults,        \* which channel sends fault, per alert
    sent,          \* log of channel sends attempted, in order
    delivery,      \* send_alert / send_bulk_alerts return value
    calls,         \* how often each collaborator was invoked
    response,      \* the value main returned
    entry_response \* the value entrypoint.main returned, where both mains run

vars == << pc, prog, event, environ, context, secrets, config, analyzer, hos_clocks,
           current_time, results, alerts, alerter, faults, sent, delivery,
           calls, response, entry_response >>

-----------------------------------------------------------------------------
(* Bounds *)

\* longest list of records a fetch returns / of alerts handed to the alerter
MaxClocks == 3
MaxAlerts == 2

-----------------------------------------------------------------------------
(* Python values *)

PyNone == [t |-> "None"]
PyStr(s) == [t |-> "str", s |-> s]
PyNum(n) == [t |-> "num", n |-> n]
PyList(l) == [t |-> "list", l |-> l]

\* bool(v): None, "", 0 and [] are falsy
Truthy(v) ==
    CASE v.t = "None" -> FALSE
      [] v.t = "str"  -> v.s # ""
      [] v.t = "num"  -> v.n # 0
      [] v.t = "list" -> v.l # << >>

\* a or b
PyOr(a, b) == IF Truthy(a) THEN a ELSE b

HOUR == 60 * 60
Hundredths == 10 * 10

\* timedelta.total_seconds() / 3600, in hundredths of an hour
HoursOf(seconds) == (seconds * Hundredths) \div HOUR

-----------------------------------------------------------------------------
(* Duty-status records *)

PC_STATUS == "personalConveyance"

StatusTypes == {PC_STATUS, "driving"}

\* hosStatusStartTime values.
\*   falsy      : key absent, None or ""
\*   nonstring  : a truthy value that is not a str (a number)
\*   malformed  : a str that is not ISO-8601
\*   iso        : an ISO-8601 str with wall-clock reading `local` (seconds) and
\*                suffix tz: "Z", "+00:00", "+01:00", or "" (no offset)
StartFalsy == [kind |-> "falsy", local |-> 0, tz |-> ""]
StartNonString == [kind |-> "nonstring", local |-> 0, tz |-> ""]
StartMalformed == [kind |-> "malformed", local |-> 0, tz |-> ""]
StartIso(local, tz) == [kind |-> "iso", local |-> local, tz |-> tz]

TzSuffixes == {"Z", "+01:00", ""}
LocalReadings == {0, HOUR}

StartValues ==
    {StartFalsy, StartNonString, StartMalformed}
        \cup {StartIso(l, z) : l \in LocalReadings, z \in TzSuffixes}

Clock(id, status, start) ==
    [driver |-> [id |-> id, name |-> id],
     currentDutyStatus |-> [hosStatusType |-> status, hosStatusStartTime |-> start]]

NowValues == {0, 16 * HOUR, 17 * HOUR}

\* thresholds in hundredths of an hour
ThresholdValues == {0, 800, 1600}

-----------------------------------------------------------------------------
(* datetime *)

NoDatetime == [kind |-> "None", local |-> 0, aware |-> FALSE, utcoffset |-> 0]

\* str.replace("Z", "+00:00") on the suffix
ReplaceZ(tz) == IF tz = "Z" THEN "+00:00" ELSE tz

OffsetSeconds(tz) ==
    CASE tz = "+00:00" -> 0
      [] tz = "+01:00" -> HOUR
      [] OTHER -> 0

\* datetime.fromisoformat(s.replace("Z", "+00:00")):
\*   exc = "AttributeError" when s has no replace method,
\*   exc = "ValueError" when the text is not ISO-8601,
\*   else the datetime, aware exactly when the text carries an offset.
FromIsoformat(start) ==
    CASE start.kind = "nonstring" ->
            [exc |-> "AttributeError", value |-> NoDatetime]
      [] start.kind = "malformed" ->
            [exc |-> "ValueError", value |-> NoDatetime]
      [] OTHER ->
            LET tz == ReplaceZ(start.tz) IN
            [exc |-> "none",
             value |-> [kind |-> "datetime", local |-> start.local,
                        aware |-> tz # "",
                        utcoffset |-> OffsetSeconds(tz)]]

\* the instant an aware datetime denotes, in seconds UTC
UtcSeconds(dt) == dt.local - dt.utcoffset

-----------------------------------------------------------------------------
(* PCAnalyzer *)

PCAnalysisResult(id, name, in_pc, hours, start, exceeds, thr) ==
    [exc |-> "none",
     driver_id |-> id,
     driver_name |-> name,
     is_currently_in_pc |-> in_pc,
     consecutive_pc_hours |-> hours,
     pc_start_time |-> start,
     exceeds_threshold |-> exceeds,
     threshold_hours |-> thr]

\* analyze_clock left by an exception instead of a return
Raised(clock, exc, thr) ==
    [exc |-> exc,
     driver_id |-> clock.driver.id,
     driver_name |-> clock.driver.name,
     is_currently_in_pc |-> FALSE,
     consecutive_pc_hours |-> 0,
     pc_start_time |-> NoDatetime,
     exceeds_threshold |-> FALSE,
     threshold_hours |-> thr]

\* variants of the comparison: strict, and reversed
ExceedsThresholdStrict(hours, thr) == hours > thr
ExceedsThresholdReversed(hours, thr) == hours <= thr

\* exceeds_threshold=consecutive_pc_hours >= self.threshold_hours
ExceedsThreshold(hours, thr) == hours >= thr

\* PCAnalyzer.analyze_clock(hos_clock, current_time), current_time aware UTC
analyze_clock(clock, now, thr) ==
    LET driver_id == clock.driver.id
        driver_name == clock.driver.name
        status_type == clock.currentDutyStatus.hosStatusType
        status_start_str == clock.currentDutyStatus.hosStatusStartTime
        is_currently_in_pc == status_type = PC_STATUS
        parsed == FromIsoformat(status_start_str)
        pc_start_time == parsed.value
        duration == now - UtcSeconds(pc_start_time)
        consecutive_pc_hours == HoursOf(duration)
    IN  IF ~is_currently_in_pc \/ status_start_str.kind = "falsy"
        THEN PCAnalysisResult(driver_id, driver_name, FALSE, 0, NoDatetime, FALSE, thr)
        ELSE IF parsed.exc \in {"ValueError", "TypeError"}
        THEN PCAnalysisResult(driver_id, driver_name, TRUE, 0, NoDatetime, FALSE, thr)
        ELSE IF parsed.exc # "none"
        THEN Raised(clock, parsed.exc, thr)
        \* aware - naive: "can't subtract offset-naive and offset-aware datetimes"
        ELSE IF ~pc_start_time.aware
        THEN Raised(clock, "TypeError", thr)
        ELSE PCAnalysisResult(driver_id, driver_name, TRUE, consecutive_pc_hours,
                              pc_start_time,
                              ExceedsThreshold(consecutive_pc_hours, thr), thr)

\* PCAnalyzer.analyze_all_clocks: the results in input order, or the exception
\* of the first record whose analysis raises (nothing is returned then)
analyze_all_clocks(clocks, now, thr) ==
    LET rs == [i \in 1..Len(clocks) |-> analyze_clock(clocks[i], now, thr)]
        raising == {i \in 1..Len(clocks) : rs[i].exc # "none"}
        first == CHOOSE i \in raising : \A j \in raising : i <= j
    IN  IF raising = {}
        THEN [exc |-> "none", list |-> rs]
        ELSE [exc |-> rs[first].exc, list |-> << >>]

exceeds(r) == r.exceeds_threshold
in_pc(r) == r.is_currently_in_pc

\* variant: every driver in PC is reported
get_alerts_in_pc(rs) == SelectSeq(rs, in_pc)

\* PCAnalyzer.get_alerts: [r for r in results if r.exceeds_threshold]
get_alerts(rs) == SelectSeq(rs, exceeds)

\* round(x, 2) of a float that is a whole number of hundredths
Round2(h) == h

OffsetSuffix(utcoffset) == IF utcoffset = HOUR THEN "+01:00" ELSE "+00:00"

\* datetime.isoformat(), or None
Isoformat(dt) ==
    IF dt.kind = "None"
    THEN [kind |-> "None", local |-> 0, tz |-> ""]
    ELSE [kind |-> "iso", local |-> dt.local, tz |-> OffsetSuffix(dt.utcoffset)]

\* PCAnalysisResult.to_dict
to_dict(r) ==
    [driver_id |-> r.driver_id,
     driver_name |-> r.driver_name,
     is_currently_in_pc |-> r.is_currently_in_pc,
     consecutive_pc_hours |-> Round2(r.consecutive_pc_hours),
     pc_start_time |-> Isoformat(r.pc_start_time),
     exceeds_threshold |-> r.exceeds_threshold,
     threshold_hours |-> r.threshold_hours]

-----------------------------------------------------------------------------
(* Inputs *)

DriverIds == <<"d1", "d2", "d3", "d4">>

\* every list of at most n records drawn from `pairs` of (status, start time);
\* the record at position i is driver i
ClockListsOver(pairs, n) == UNION {[1..k -> pairs] : k \in 0..n}

AsClocks(f) == [i \in 1..Len(f) |-> Clock(DriverIds[i], f[i][1], f[i][2])]

NoResults == [exc |-> "none", list |-> << >>]

-----------------------------------------------------------------------------
(* Alerter *)

AlertConfig(webhook_url, email_recipients, console_output) ==
    [webhook_url |-> webhook_url,
     email_recipients |-> email_recipients,
     console_output |-> console_output]

\* the `if self.config....:` test in front of each channel's try block
ChannelEnabled(cfg, channel) ==
    CASE channel = "console" -> cfg.console_output
      [] channel = "webhook" -> Truthy(cfg.webhook_url)
      [] channel = "email"   -> Truthy(cfg.email_recipients)

ErrorText(channel) ==
    CASE channel = "console" -> "Console error"
      [] channel = "webhook" -> "Webhook error"
      [] channel = "email"   -> "Email error"

NoSends == [console |-> FALSE, webhook |-> FALSE, email |-> FALSE, errors |-> << >>]

\* variant: one try block around all three channels, so that nothing is
\* attempted after the first fault
TryChannelNoIsolation(cfg, alert_data, fault, channel, st) ==
    IF ~ChannelEnabled(cfg, channel) \/ st.result.errors # << >>
    THEN st
    ELSE [result |->
            IF fault[channel]
            THEN [st.result EXCEPT !.errors = Append(@, ErrorText(channel))]
            ELSE [st.result EXCEPT ![channel] = TRUE],
          log |-> Append(st.log, [alert |-> alert_data.driver_id, channel |-> channel])]

\* one `if enabled: try: send; results[channel] = True; except: errors.append`
\* block of send_alert; st = [result, log], fault[channel] says the send raises
TryChannel(cfg, alert_data, fault, channel, st) ==
    IF ~ChannelEnabled(cfg, channel)
    THEN st
    ELSE [result |->
            IF fault[channel]
            THEN [st.result EXCEPT !.errors = Append(@, ErrorText(channel))]
            ELSE [st.result EXCEPT ![channel] = TRUE],
          log |-> Append(st.log, [alert |-> alert_data.driver_id, channel |-> channel])]

\* Alerter.send_alert: console, then webhook, then email
send_alert(cfg, alert_data, fault) ==
    LET s0 == [result |-> NoSends, log |-> << >>]
        s1 == TryChannel(cfg, alert_data, fault, "console", s0)
        s2 == TryChannel(cfg, alert_data, fault, "webhook", s1)
        s3 == TryChannel(cfg, alert_data, fault, "email", s2)
    IN  s3

NoDelivery == [t |-> "None"]

\* variant: an alert counts as delivered when any channel delivered it
TallyAnyChannel(summary, result) ==
    IF result.console \/ result.webhook \/ result.email
    THEN [summary EXCEPT !.successful = @ + 1]
    ELSE [summary EXCEPT !.failed = @ + 1]

\* variant: failures are not counted
TallySuccessOnly(summary, result) ==
    IF result.errors = << >>
    THEN [summary EXCEPT !.successful = @ + 1]
    ELSE summary

\* if not result["errors"]: successful += 1 else: failed += 1
Tally(summary, result) ==
    IF result.errors = << >>
    THEN [summary EXCEPT !.successful = @ + 1]
    ELSE [summary EXCEPT !.failed = @ + 1]

RECURSIVE BulkLoop(_, _, _, _, _)
\* the for loop of send_bulk_alerts from alert i on; st = [summary, log]
BulkLoop(cfg, alert_list, fault_list, i, st) ==
    IF i > Len(alert_list)
    THEN st
    ELSE LET r == send_alert(cfg, alert_list[i], fault_list[i])
             sm == [st.summary EXCEPT !.results = Append(@, r.result)]
         IN  BulkLoop(cfg, alert_list, fault_list, i + 1,
                [summary |-> Tally(sm, r.result), log |-> st.log \o r.log])

\* Alerter.send_bulk_alerts
send_bulk_alerts(cfg, alert_list, fault_list) ==
    BulkLoop(cfg, alert_list, fault_list, 1,
        [summary |-> [t |-> "summary", total_alerts |-> Len(alert_list),
                      successful |-> 0, failed |-> 0, results |-> << >>],
         log |-> << >>])

\* Alerter.send_summary prints on the console channel only
send_summary(cfg) == IF cfg.console_output THEN 1 ELSE 0

FaultChoices == [{"console", "webhook", "email"} -> BOOLEAN]

WebhookSettings == {PyNone, PyStr(""), PyStr("https://hook")}
EmailSettings == {PyNone, PyList(<< >>), PyList(<<"ops@fleet">>)}

AlertConfigs ==
    {AlertConfig(w, e, c) : w \in WebhookSettings, e \in EmailSettings, c \in BOOLEAN}

-----------------------------------------------------------------------------
(* Events, environment, configuration *)

\* a key that is not in a dict (dict.get(k) gives None, dict.get(k, d) gives d)
PyMissing == [t |-> "missing"]

DictGet(v) == IF v.t = "missing" THEN PyNone ELSE v
DictGetDefault(v, d) == IF v.t = "missing" THEN d ELSE v

\* os.environ.get(k) of a variable holding v (PyNone: not set)
EnvironGetDefault(v, d) == IF v.t = "None" THEN d ELSE v

DEFAULT_PC_THRESHOLD_HOURS == 16 * Hundredths
DEFAULT_PC_THRESHOLD == 16 * Hundredths

\* float(v) of a number, or of the decimal text of one
FloatOf(v) ==
    CASE v.t = "num" -> v.n
      [] v.t = "str" /\ v.s = "12" -> 12 * Hundredths
      [] v.t = "str" /\ v.s = "4"  -> 4 * Hundredths

\* str.split(",")
SplitComma(text) == IF text = "t1,t2" THEN <<"t1", "t2">> ELSE <<text>>

BodyFields(thr, tags, hook, mail, all_pc) ==
    [pc_threshold_hours |-> thr,
     driver_tag_ids |-> tags,
     webhook_url |-> hook,
     email_recipients |-> mail,
     include_all_pc_drivers |-> all_pc]

EmptyDict == BodyFields(PyMissing, PyMissing, PyMissing, PyMissing, PyMissing)

\* event["body"]: kind "absent" (no such key), "dict", "json" (a str that
\* json.loads reads as the dict `fields`), "badjson" (a str it rejects)
Body(kind, fields) == [kind |-> kind, fields |-> fields]
AbsentBody == Body("absent", EmptyDict)

Event(body, thr, api_key) ==
    [body |-> body, pc_threshold_hours |-> thr, api_key |-> api_key]

Environ(thr, tags, hook, mail, key) ==
    [PC_THRESHOLD_HOURS |-> thr,
     DRIVER_TAG_IDS |-> tags,
     WEBHOOK_URL |-> hook,
     EMAIL_RECIPIENTS |-> mail,
     SAMSARA_API_KEY |-> key]

IsStr(body) == body.kind \in {"json", "badjson"}

\* json.loads(body)
JsonLoads(body) ==
    IF body.kind = "json"
    THEN [exc |-> "none", value |-> body.fields]
    ELSE [exc |-> "JSONDecodeError", value |-> EmptyDict]

\* variant: only an absent token counts as missing
TokenMissingIsNone(api_token) == api_token.t = "None"

\* if not api_token:
TokenMissing(api_token) == ~Truthy(api_token)

\* handler.get_config(event), reading os.environ = env
get_config(ev, env) ==
    LET raw == ev.body
        body == IF raw.kind = "absent" THEN EmptyDict
                ELSE IF IsStr(raw)
                THEN (IF JsonLoads(raw).exc = "none" THEN JsonLoads(raw).value ELSE EmptyDict)
                ELSE raw.fields
    IN  [pc_threshold_hours |->
            FloatOf(PyOr(DictGet(body.pc_threshold_hours),
                         EnvironGetDefault(env.PC_THRESHOLD_HOURS,
                                           PyNum(DEFAULT_PC_THRESHOLD_HOURS)))),
         driver_tag_ids |->
            IF Truthy(env.DRIVER_TAG_IDS)
            THEN PyOr(DictGet(body.driver_tag_ids),
                      PyList(SplitComma(EnvironGetDefault(env.DRIVER_TAG_IDS, PyStr("")).s)))
            ELSE PyNone,
         webhook_url |-> PyOr(DictGet(body.webhook_url), env.WEBHOOK_URL),
         email_recipients |->
            IF Truthy(env.EMAIL_RECIPIENTS)
            THEN PyOr(DictGet(body.email_recipients),
                      PyList(SplitComma(EnvironGetDefault(env.EMAIL_RECIPIENTS, PyStr("")).s)))
            ELSE PyNone]

\* entrypoint.main step 3: float(event.get("pc_threshold_hours", DEFAULT_PC_THRESHOLD))
entry_threshold(ev) ==
    FloatOf(DictGetDefault(ev.pc_threshold_hours, PyNum(DEFAULT_PC_THRESHOLD)))

\* entrypoint.main step 2: secrets -> event param -> env var
entry_api_token(secr, ev, env) ==
    PyOr(PyOr(PyOr(DictGet(secr.SAMSARA_API_KEY), DictGet(secr.SAMSARA_API_TOKEN)),
              DictGet(ev.api_key)),
         env.SAMSARA_API_KEY)

-----------------------------------------------------------------------------
(* State before anything ran *)

NoEvent == Event(AbsentBody, PyMissing, PyMissing)
NoEnviron == Environ(PyNone, PyNone, PyNone, PyNone, PyNone)
NoContext == [samsara_api_token |-> PyMissing]
NoSecrets == [raised |-> FALSE, SAMSARA_API_KEY |-> PyMissing, SAMSARA_API_TOKEN |-> PyMissing]
NoConfig == [pc_threshold_hours |-> DEFAULT_PC_THRESHOLD_HOURS, driver_tag_ids |-> PyNone,
             webhook_url |-> PyNone, email_recipients |-> PyNone]
NoFetch == [exc |-> "none", list |-> << >>]
NoCalls == [get_secrets |-> 0, fetch |-> 0, analyze |-> 0, send_bulk_alerts |-> 0,
            send_alert |-> 0, send_summary |-> 0]
NoResponse == [t |-> "none"]

\* PCAnalyzer() and AlertConfig() as their constructors default them
DefaultAnalyzer == [threshold_hours |-> DEFAULT_PC_THRESHOLD_HOURS]
DefaultAlerter == AlertConfig(PyNone, PyNone, TRUE)

Blank ==
    /\ event = NoEvent
    /\ environ = NoEnviron
    /\ context = NoContext
    /\ secrets = NoSecrets
    /\ config = NoConfig
    /\ analyzer = DefaultAnalyzer
    /\ hos_clocks = NoFetch
    /\ current_time = 0
    /\ results = NoResults
    /\ alerts = << >>
    /\ alerter = DefaultAlerter
    /\ faults = << >>
    /\ sent = << >>
    /\ delivery = NoDelivery
    /\ calls = NoCalls
    /\ response = NoResponse
    /\ entry_response = NoResponse

-----------------------------------------------------------------------------
(* The analyzer called directly: analyze_clock, analyze_all_clocks, get_alerts *)

AllClockLists == {AsClocks(f) : f \in ClockListsOver(StatusTypes \X StartValues, MaxClocks)}

InitAnalyzer ==
    /\ Blank
    /\ pc = "idle"
    /\ prog = "analyzer"

CallAnalyzeClock ==
    /\ prog = "analyzer" /\ pc = "idle"
    /\ \E status \in StatusTypes, start \in StartValues,
          now \in NowValues, thr \in ThresholdValues :
          LET clock == Clock(DriverIds[1], status, start)
              r == analyze_clock(clock, now, thr)
          IN  /\ analyzer' = [threshold_hours |-> thr]
              /\ hos_clocks' = [exc |-> "none", list |-> <<clock>>]
              /\ current_time' = now
              /\ results' = [exc |-> r.exc,
                             list |-> IF r.exc = "none" THEN <<r>> ELSE << >>]
    /\ pc' = "analyze_clock"
    /\ calls' = [calls EXCEPT !.analyze = @ + 1]
    /\ UNCHANGED << prog, event, environ, context, secrets, config, alerts, alerter,
                    faults, sent, delivery, response,
                    entry_response >>

CallAnalyzeAllClocks ==
    /\ prog = "analyzer" /\ pc = "idle"
    /\ \E clocks \in AllClockLists, now \in NowValues, thr \in ThresholdValues :
          /\ analyzer' = [threshold_hours |-> thr]
          /\ hos_clocks' = [exc |-> "none", list |-> clocks]
          /\ current_time' = now
          /\ results' = analyze_all_clocks(clocks, now, thr)
    /\ pc' = "analyze_all_clocks"
    /\ calls' = [calls EXCEPT !.analyze = @ + 1]
    /\ UNCHANGED << prog, event, environ, context, secrets, config, alerts, alerter,
                    faults, sent, delivery, response,
                    entry_response >>

CallGetAlerts ==
    /\ prog = "analyzer" /\ pc = "analyze_all_clocks"
    /\ results.exc = "none"
    /\ alerts' = get_alerts(results.list)
    /\ pc' = "get_alerts"
    /\ UNCHANGED << prog, event, environ, context, secrets, config, analyzer, hos_clocks,
                    current_time, results, alerter, faults, sent, delivery, calls,
                    response,
                    entry_response >>

NextAnalyzer == CallAnalyzeClock \/ CallAnalyzeAllClocks \/ CallGetAlerts

SpecAnalyzer == InitAnalyzer /\ [][NextAnalyzer]_vars

-----------------------------------------------------------------------------
(* Properties of the analyzer (SpecAnalyzer) *)

AnalyzerReturned == pc \in {"analyze_clock", "analyze_all_clocks"} /\ results.exc = "none"

InPcStatus(clock) == clock.currentDutyStatus.hosStatusType = "personalConveyance"
StartOf(clock) == clock.currentDutyStatus.hosStatusStartTime

\* the start time is present but is no timezone-aware ISO-8601 string
Unparseable(clock) ==
    \/ StartOf(clock).kind \in {"malformed", "nonstring"}
    \/ StartOf(clock).kind = "iso" /\ StartOf(clock).tz = ""

\* the start time is a timezone-aware ISO-8601 string
ValidStart(clock) == StartOf(clock).kind = "iso" /\ StartOf(clock).tz # ""

\* the instant a valid start time denotes, read off the string
StartInstant(clock) ==
    StartOf(clock).local - (IF StartOf(clock).tz = "+01:00" THEN 60 * 60 ELSE 0)

\* C1: every result analyze_clock returns satisfies
\*     exceeds_threshold => is_currently_in_pc /\ consecutive_pc_hours >= threshold_hours
\* and ~is_currently_in_pc => consecutive_pc_hours = 0 /\ pc_start_time = None
\*                            /\ ~exceeds_threshold.
C1_ResultInvariant ==
    AnalyzerReturned =>
        \A i \in 1..Len(results.list) :
            LET r == results.list[i] IN
            /\ r.threshold_hours = analyzer.threshold_hours
            /\ r.exceeds_threshold =>
                  r.is_currently_in_pc /\ r.consecutive_pc_hours >= analyzer.threshold_hours
            /\ ~r.is_currently_in_pc =>
                  /\ r.consecutive_pc_hours = 0
                  /\ r.pc_start_time.kind = "None"
                  /\ ~r.exceeds_threshold

\* a batch with a violating result next to a result that is not in PC,
\* at a threshold above zero
C1_Witness ==
    /\ AnalyzerReturned
    /\ analyzer.threshold_hours > 0
    /\ \E i, j \in 1..Len(results.list) :
          /\ results.list[i].exceeds_threshold
          /\ ~results.list[j].is_currently_in_pc
          /\ InPcStatus(hos_clocks.list[j])

\* C2: a record in personalConveyance whose start time is present but cannot
\* be read as an absolute UTC timestamp never makes analyze_clock raise: the
\* result is in PC, zero hours, no start time, not exceeding; and
\* analyze_all_clocks over a batch holding such a record returns one result
\* per record.
C2_UnparseableIsDowngraded ==
    /\ pc = "analyze_clock" /\ InPcStatus(hos_clocks.list[1])
          /\ Unparseable(hos_clocks.list[1]) =>
          /\ results.exc = "none"
          /\ Len(results.list) = 1
          /\ results.list[1].is_currently_in_pc
          /\ results.list[1].consecutive_pc_hours = 0
          /\ results.list[1].pc_start_time.kind = "None"
          /\ ~results.list[1].exceeds_threshold
    /\ pc = "analyze_all_clocks"
          /\ (\E i \in 1..Len(hos_clocks.list) :
                 InPcStatus(hos_clocks.list[i]) /\ Unparseable(hos_clocks.list[i])) =>
          /\ results.exc = "none"
          /\ Len(results.list) = Len(hos_clocks.list)

NegativeElapsedReached ==
    /\ AnalyzerReturned
    /\ \E i \in 1..Len(results.list) : results.list[i].consecutive_pc_hours < 0

-----------------------------------------------------------------------------
(* The alerter called directly: send_alert, send_bulk_alerts, send_summary *)

\* the payload of a violation of driver i
AlertPayload(i) ==
    to_dict(PCAnalysisResult(DriverIds[i], DriverIds[i], TRUE, 17 * Hundredths,
                             [kind |-> "datetime", local |-> 0, aware |-> TRUE,
                              utcoffset |-> 0],
                             TRUE, DEFAULT_PC_THRESHOLD_HOURS))

PayloadList(n) == [i \in 1..n |-> AlertPayload(i)]

InitAlerter ==
    /\ pc = "idle"
    /\ prog = "alerter"
    /\ event = NoEvent
    /\ environ = NoEnviron
    /\ context = NoContext
    /\ secrets = NoSecrets
    /\ config = NoConfig
    /\ analyzer = DefaultAnalyzer
    /\ hos_clocks = NoFetch
    /\ current_time = 0
    /\ results = NoResults
    /\ alerts = << >>
    /\ alerter \in AlertConfigs
    /\ faults = << >>
    /\ sent = << >>
    /\ delivery = NoDelivery
    /\ calls = NoCalls
    /\ response = NoResponse
    /\ entry_response = NoResponse

CallSendAlert ==
    /\ prog = "alerter" /\ pc = "idle"
    /\ \E fault \in FaultChoices :
          LET r == send_alert(alerter, AlertPayload(1), fault)
          IN  /\ alerts' = <<AlertPayload(1)>>
              /\ faults' = <<fault>>
              /\ delivery' = r.result
              /\ sent' = sent \o r.log
    /\ pc' = "send_alert"
    /\ calls' = [calls EXCEPT !.send_alert = @ + 1]
    /\ UNCHANGED << prog, event, environ, context, secrets, config, analyzer, hos_clocks,
                    current_time, results, alerter, response,
                    entry_response >>

CallSendBulkAlerts ==
    /\ prog = "alerter" /\ pc = "idle"
    /\ \E n \in 0..MaxAlerts :
       \E fault_list \in [1..n -> FaultChoices] :
          LET r == send_bulk_alerts(alerter, PayloadList(n), fault_list)
          IN  /\ alerts' = PayloadList(n)
              /\ faults' = fault_list
              /\ delivery' = r.summary
              /\ sent' = sent \o r.log
              /\ calls' = [calls EXCEPT !.send_bulk_alerts = @ + 1,
                                        !.send_alert = @ + Len(r.summary.results)]
    /\ pc' = "send_bulk_alerts"
    /\ UNCHANGED << prog, event, environ, context, secrets, config, analyzer, hos_clocks,
                    current_time, results, alerter, response,
                    entry_response >>

CallSendSummary ==
    /\ prog = "alerter" /\ pc = "idle"
    /\ calls' = [calls EXCEPT !.send_summary = @ + send_summary(alerter)]
    /\ pc' = "send_summary"
    /\ UNCHANGED << prog, event, environ, context, secrets, config, analyzer, hos_clocks,
                    current_time, results, alerts, alerter, faults, sent, delivery,
                    response,
                    entry_response >>

NextAlerter == CallSendAlert \/ CallSendBulkAlerts \/ CallSendSummary

SpecAlerter == InitAlerter /\ [][NextAlerter]_vars

-----------------------------------------------------------------------------
(* Properties of the alerter (SpecAlerter) *)

\* a channel is configured: console switched on, a webhook URL, a recipient
Configured(cfg, channel) ==
    CASE channel = "console" -> cfg.console_output = TRUE
      [] channel = "webhook" -> cfg.webhook_url = PyStr("https://hook")
      [] channel = "email"   -> cfg.email_recipients = PyList(<<"ops@fleet">>)

ChannelSet == {"console", "webhook", "email"}

\* how often channel c was attempted for the alert of driver id
Attempts(id, c) ==
    Cardinality({k \in 1..Len(sent) : sent[k].alert = id /\ sent[k].channel = c})

\* the channels of alert i that are configured and whose send faults
Faulting(i) == {c \in ChannelSet : Configured(alerter, c) /\ faults[i][c]}

\* outcome r of the alert at position i reports every channel on its own
OutcomeIsolated(i, r) ==
    /\ \A c \in ChannelSet :
          /\ Attempts(alerts[i].driver_id, c) = (IF Configured(alerter, c) THEN 1 ELSE 0)
          /\ r[c] <=> (Configured(alerter, c) /\ ~faults[i][c])
    /\ Len(r.errors) = Cardinality(Faulting(i))
    /\ \A c \in Faulting(i) : \E k \in 1..Len(r.errors) : r.errors[k] = ErrorText(c)

\* C4: send_alert attempts each enabled channel exactly once, attempts no
\* channel that is not configured, and reports each channel independently:
\* a channel's flag is true exactly when it is enabled and its own send did
\* not fault, and each faulting channel adds exactly one entry to errors.
C4_ChannelsIndependent ==
    /\ pc = "send_alert" => OutcomeIsolated(1, delivery)
    /\ pc = "send_bulk_alerts" =>
          \A i \in 1..Len(delivery.results) : OutcomeIsolated(i, delivery.results[i])

\* the webhook faults, the console is enabled: console true, one webhook error
C4_Witness ==
    /\ pc = "send_alert"
    /\ alerter.console_output /\ Configured(alerter, "webhook")
    /\ ~Configured(alerter, "email") /\ faults[1]["email"]
    /\ faults[1]["webhook"] /\ ~faults[1]["console"]
    /\ delivery.console /\ ~delivery.webhook /\ ~delivery.email
    /\ delivery.errors = <<"Webhook error">>

\* C5: send_bulk_alerts over N alerts, M of them with at least one channel
\* failure, returns total_alerts = N, failed = M, successful = N - M and the
\* N per-alert outcomes in input order; a failure on one alert does not stop
\* the remaining alerts from being sent.
C5_BulkCounts ==
    pc = "send_bulk_alerts" =>
        LET N == Len(alerts)
            M == Cardinality({i \in 1..N : Faulting(i) # {}})
        IN  /\ delivery.total_alerts = N
            /\ delivery.failed = M
            /\ delivery.successful = N - M
            /\ Len(delivery.results) = N
            /\ calls.send_alert = N
            /\ \A i \in 1..N : (delivery.results[i].errors # << >>) <=> (Faulting(i) # {})
            /\ \A i \in 1..N : \A c \in ChannelSet :
                  Configured(alerter, c) => Attempts(alerts[i].driver_id, c) = 1
            /\ \A k, l \in 1..Len(sent) :
                  k < l =>
                    \E i, j \in 1..N : /\ i <= j
                                       /\ alerts[i].driver_id = sent[k].alert
                                       /\ alerts[j].driver_id = sent[l].alert

\* the first alert fails on one channel while another channel delivers it,
\* and the second alert is still sent and succeeds
C5_Witness ==
    /\ pc = "send_bulk_alerts"
    /\ Len(alerts) = 2
    /\ delivery.results[1].errors # << >> /\ delivery.results[1].console
    /\ delivery.results[2].errors = << >> /\ delivery.results[2].webhook
    /\ delivery.failed = 1 /\ delivery.successful = 1

-----------------------------------------------------------------------------
(* entrypoint.main, step 5: the inline analysis *)

RECURSIVE EntryLoop(_, _, _, _, _)
\* for clock in clocks: ... from record i on; acc = [alerts, drivers_in_pc]
EntryLoop(clocks, now, threshold, i, acc) ==
    IF i > Len(clocks)
    THEN acc
    ELSE LET clock == clocks[i]
             status == clock.currentDutyStatus
             start_str == status.hosStatusStartTime
             parsed == FromIsoformat(start_str)
             \* any exception inside the try is caught and logged
             caught == parsed.exc # "none" \/ ~parsed.value.aware
             hours == HoursOf(now - UtcSeconds(parsed.value))
             alert == [driver_id |-> clock.driver.id,
                       driver_name |-> clock.driver.name,
                       hours_in_pc |-> Round2(hours),
                       pc_start_time |-> start_str]
         IN  IF status.hosStatusType # "personalConveyance"
             THEN EntryLoop(clocks, now, threshold, i + 1, acc)
             ELSE EntryLoop(clocks, now, threshold, i + 1,
                    [alerts |->
                        IF start_str.kind # "falsy" /\ ~caught /\ hours >= threshold
                        THEN Append(acc.alerts, alert)
                        ELSE acc.alerts,
                     drivers_in_pc |-> acc.drivers_in_pc + 1])

-----------------------------------------------------------------------------
(* Inputs of a run *)

\* the fetch collaborator raises one of these, str(e) being the text
FetchFaults == {"network unreachable", "500 Server Error"}

RunRecords ==
    {<<"driving", StartIso(0, "Z")>>,
     <<PC_STATUS, StartFalsy>>,
     <<PC_STATUS, StartMalformed>>,
     <<PC_STATUS, StartIso(0, "")>>,
     <<PC_STATUS, StartIso(0, "Z")>>,
     <<PC_STATUS, StartIso(HOUR, "Z")>>}

RunClockLists == {AsClocks(f) : f \in ClockListsOver(RunRecords, MaxClocks)}

FetchOutcomes ==
    {[exc |-> m, list |-> << >>] : m \in FetchFaults}
        \cup {[exc |-> "none", list |-> l] : l \in RunClockLists}

RunNowValues == {16 * HOUR, 17 * HOUR}

\* Within a run the webhook POST is the send that faults: the console and
\* email channels only print a payload that to_dict built.  A send that is
\* never attempted cannot fault.
FaultsOf(cfg) ==
    {f \in FaultChoices :
        \A c \in DOMAIN f : f[c] => (c = "webhook" /\ ChannelEnabled(cfg, c))}

HandlerBodies ==
    {AbsentBody, Body("badjson", EmptyDict)}
        \cup {Body("dict", BodyFields(thr, PyMissing, hook, mail, all_pc)) :
                thr \in {PyMissing, PyNum(0), PyNum(8 * Hundredths)},
                hook \in {PyMissing, PyStr("https://hook")},
                mail \in {PyMissing, PyList(<<"ops@fleet">>)},
                all_pc \in {PyMissing, PyNum(1)}}
        \cup {Body("json", BodyFields(thr, PyMissing, hook, PyMissing, PyMissing)) :
                thr \in {PyMissing, PyNum(8 * Hundredths)},
                hook \in {PyMissing, PyStr("https://hook")}}

HandlerEvents == {Event(b, PyMissing, PyMissing) : b \in HandlerBodies}

HandlerEnvirons ==
    {Environ(thr, PyNone, PyNone, mail, PyNone) :
        thr \in {PyNone, PyStr("12")},
        mail \in {PyNone, PyStr("env@fleet")}}

Contexts == {[samsara_api_token |-> v] : v \in {PyMissing, PyStr(""), PyStr("token")}}

EntryEvents ==
    {Event(AbsentBody, thr, key) :
        thr \in {PyMissing, PyNum(0), PyNum(8 * Hundredths)},
        key \in {PyMissing, PyStr("token")}}

EntryEnvirons ==
    {Environ(thr, PyNone, PyNone, PyNone, key) :
        thr \in {PyNone, PyStr("12")},
        key \in {PyNone, PyStr("token")}}

\* get_secrets(): raises, or a dict with neither, one or the other key
EntrySecrets ==
    {[raised |-> TRUE, SAMSARA_API_KEY |-> PyMissing, SAMSARA_API_TOKEN |-> PyMissing],
     [raised |-> FALSE, SAMSARA_API_KEY |-> PyMissing, SAMSARA_API_TOKEN |-> PyMissing],
     [raised |-> FALSE, SAMSARA_API_KEY |-> PyStr("token"), SAMSARA_API_TOKEN |-> PyMissing],
     [raised |-> FALSE, SAMSARA_API_KEY |-> PyMissing, SAMSARA_API_TOKEN |-> PyStr("token")]}

-----------------------------------------------------------------------------
(* handler.main *)

Init ==
    /\ pc = "start"
    /\ prog \in {"handler", "entrypoint"}
    /\ IF prog = "handler"
       THEN /\ event \in HandlerEvents
            /\ environ \in HandlerEnvirons
            /\ context \in Contexts
            /\ secrets = NoSecrets
       ELSE /\ event \in EntryEvents
            /\ environ \in EntryEnvirons
            /\ context = NoContext
            /\ secrets \in EntrySecrets
    /\ config = NoConfig
    /\ analyzer = DefaultAnalyzer
    /\ hos_clocks = NoFetch
    /\ current_time = 0
    /\ results = NoResults
    /\ alerts = << >>
    /\ alerter = DefaultAlerter
    /\ faults = << >>
    /\ sent = << >>
    /\ delivery = NoDelivery
    /\ calls = NoCalls
    /\ response = NoResponse
    /\ entry_response = NoResponse

\* variant: the except block reports a fixed text
ErrorResponseFixedText(text) ==
    [statusCode |-> 500,
     body |-> [error |-> "Failed to analyze PC duration",
               message |-> "Failed to analyze PC duration"]]

\* the except block of handler.main
ErrorResponse(text) ==
    [statusCode |-> 500,
     body |-> [error |-> text, message |-> "Failed to analyze PC duration"]]

\* handler.main up to the try: token check, get_config, the three objects
HandlerStart ==
    /\ prog = "handler" /\ pc = "start"
    /\ LET api_token == DictGet(context.samsara_api_token)
           cfg == get_config(event, environ)
       IN  IF TokenMissing(api_token)
           THEN /\ response' = [statusCode |-> 401,
                                body |-> [error |-> "Missing Samsara API token in context"]]
                /\ pc' = "done"
                /\ UNCHANGED << config, analyzer, alerter >>
           ELSE /\ config' = cfg
                /\ analyzer' = [threshold_hours |-> cfg.pc_threshold_hours]
                /\ alerter' = AlertConfig(cfg.webhook_url, cfg.email_recipients, TRUE)
                /\ pc' = "fetch"
                /\ UNCHANGED response
    /\ UNCHANGED << prog, event, environ, context, secrets, hos_clocks, current_time,
                    results, alerts, faults, sent, delivery, calls,
                    entry_response >>

\* variant: the empty snapshot is not told apart
NoClocksNeverTaken(clocks) == FALSE

\* if not hos_clocks:
NoClocks(clocks) == clocks = << >>

\* Step 1: samsara.get_hos_clocks, and the empty-list return
HandlerFetch ==
    /\ prog = "handler" /\ pc = "fetch"
    /\ \E outcome \in FetchOutcomes :
          /\ hos_clocks' = outcome
          /\ IF outcome.exc # "none"
             THEN response' = ErrorResponse(outcome.exc) /\ pc' = "done"
             ELSE IF NoClocks(outcome.list)
             THEN /\ response' = [statusCode |-> 200,
                                  body |-> [message |-> "No drivers found",
                                            drivers_checked |-> 0,
                                            alerts_triggered |-> 0]]
                  /\ pc' = "done"
             ELSE UNCHANGED response /\ pc' = "analyze"
    /\ calls' = [calls EXCEPT !.fetch = @ + 1]
    /\ UNCHANGED << prog, event, environ, context, secrets, config, analyzer,
                    current_time, results, alerts, alerter, faults, sent, delivery,
                    entry_response >>

\* Steps 2 and 3: analyze_all_clocks at datetime.now, then get_alerts
HandlerAnalyze ==
    /\ prog = "handler" /\ pc = "analyze"
    /\ \E now \in RunNowValues :
          LET rs == analyze_all_clocks(hos_clocks.list, now, analyzer.threshold_hours)
          IN  /\ current_time' = now
              /\ results' = rs
              /\ IF rs.exc # "none"
                 THEN /\ response' = ErrorResponse(rs.exc)
                      /\ pc' = "done"
                      /\ UNCHANGED alerts
                 ELSE /\ alerts' = get_alerts(rs.list)
                      /\ pc' = "send"
                      /\ UNCHANGED response
    /\ calls' = [calls EXCEPT !.analyze = @ + 1]
    /\ UNCHANGED << prog, event, environ, context, secrets, config, analyzer, hos_clocks,
                    alerter, faults, sent, delivery,
                    entry_response >>

\* Step 4: alert_results = None; if alerts: send_bulk_alerts(payloads)
HandlerSendAlerts ==
    /\ prog = "handler" /\ pc = "send"
    /\ IF alerts # << >>
       THEN \E fault_list \in [1..Len(alerts) -> FaultsOf(alerter)] :
               LET alert_payloads == [i \in 1..Len(alerts) |-> to_dict(alerts[i])]
                   r == send_bulk_alerts(alerter, alert_payloads, fault_list)
               IN  /\ faults' = fault_list
                   /\ delivery' = r.summary
                   /\ sent' = sent \o r.log
                   /\ calls' = [calls EXCEPT !.send_bulk_alerts = @ + 1,
                                             !.send_alert = @ + Len(r.summary.results)]
       ELSE /\ delivery' = NoDelivery
            /\ UNCHANGED << faults, sent, calls >>
    /\ pc' = "respond"
    /\ UNCHANGED << prog, event, environ, context, secrets, config, analyzer, hos_clocks,
                    current_time, results, alerts, alerter, response,
                    entry_response >>

\* summary = {"drivers_checked": ..., "drivers_in_pc": ..., ...}
HandlerSummary(clocks, rs, al, thr) ==
    [drivers_checked |-> Len(clocks),
     drivers_in_pc |-> Len(SelectSeq(rs, in_pc)),
     alerts_triggered |-> Len(al),
     threshold_hours |-> thr]

\* Step 5 and the response: send_summary, response_body, the detailed mode
HandlerRespond ==
    /\ prog = "handler" /\ pc = "respond"
    /\ LET drivers_in_pc == SelectSeq(results.list, in_pc)
           summary == HandlerSummary(hos_clocks.list, results.list, alerts,
                                     config.pc_threshold_hours)
           response_body == [success |-> TRUE,
                             summary |-> summary,
                             alerts |-> [i \in 1..Len(alerts) |-> to_dict(alerts[i])],
                             alert_delivery |-> delivery]
           detailed == [success |-> TRUE,
                        summary |-> summary,
                        alerts |-> [i \in 1..Len(alerts) |-> to_dict(alerts[i])],
                        alert_delivery |-> delivery,
                        all_pc_drivers |->
                            [i \in 1..Len(drivers_in_pc) |-> to_dict(drivers_in_pc[i])]]
       IN  \* event.get("body", {}).get(...): a str body has no get
           IF IsStr(event.body)
           THEN response' = ErrorResponse("AttributeError")
           ELSE IF Truthy(DictGet(event.body.fields.include_all_pc_drivers))
           THEN response' = [statusCode |-> 200, body |-> detailed]
           ELSE response' = [statusCode |-> 200, body |-> response_body]
    /\ calls' = [calls EXCEPT !.send_summary = @ + 1]
    /\ pc' = "done"
    /\ UNCHANGED << prog, event, environ, context, secrets, config, analyzer, hos_clocks,
                    current_time, results, alerts, alerter, faults, sent, delivery,
                    entry_response >>

-----------------------------------------------------------------------------
(* entrypoint.main *)

\* steps 1 to 3: get_secrets, the API token, the threshold
EntryStart ==
    /\ prog = "entrypoint" /\ pc = "start"
    /\ LET found == IF secrets.raised THEN NoSecrets ELSE secrets
           api_token == entry_api_token(found, event, environ)
       IN  IF TokenMissing(api_token)
           THEN /\ response' = [body |-> [error |-> "No API key"]]
                /\ pc' = "done"
                /\ UNCHANGED config
           ELSE /\ config' = [config EXCEPT !.pc_threshold_hours = entry_threshold(event)]
                /\ pc' = "fetch"
                /\ UNCHANGED response
    /\ calls' = [calls EXCEPT !.get_secrets = @ + 1]
    /\ UNCHANGED << prog, event, environ, context, secrets, analyzer, hos_clocks,
                    current_time, results, alerts, alerter, faults, sent, delivery,
                    entry_response >>

\* step 4: get_hos_clocks(api_token)
EntryFetch ==
    /\ prog = "entrypoint" /\ pc = "fetch"
    /\ \E outcome \in FetchOutcomes :
          /\ hos_clocks' = outcome
          /\ IF outcome.exc # "none"
             THEN response' = [body |-> [error |-> outcome.exc]] /\ pc' = "done"
             ELSE UNCHANGED response /\ pc' = "analyze"
    /\ calls' = [calls EXCEPT !.fetch = @ + 1]
    /\ UNCHANGED << prog, event, environ, context, secrets, config, analyzer,
                    current_time, results, alerts, alerter, faults, sent, delivery,
                    entry_response >>

\* the loop over the records and result = {"success": True, "summary": ..., "alerts": ...}
EntryResult(clocks, now, threshold) ==
    LET out == EntryLoop(clocks, now, threshold, 1,
                         [alerts |-> << >>, drivers_in_pc |-> 0])
    IN  [body |-> [success |-> TRUE,
                   summary |-> [drivers_checked |-> Len(clocks),
                                drivers_in_pc |-> out.drivers_in_pc,
                                alerts_triggered |-> Len(out.alerts),
                                threshold_hours |-> threshold],
                   alerts |-> out.alerts]]

\* step 5 and the result
EntryAnalyze ==
    /\ prog = "entrypoint" /\ pc = "analyze"
    /\ \E now \in RunNowValues :
          LET result == EntryResult(hos_clocks.list, now, config.pc_threshold_hours)
          IN  /\ current_time' = now
              /\ alerts' = result.body.alerts
              /\ response' = result
    /\ pc' = "done"
    /\ calls' = [calls EXCEPT !.analyze = @ + 1]
    /\ UNCHANGED << prog, event, environ, context, secrets, config, analyzer, hos_clocks,
                    results, alerter, faults, sent, delivery,
                    entry_response >>

Next ==
    \/ HandlerStart
    \/ HandlerFetch
    \/ HandlerAnalyze
    \/ HandlerSendAlerts
    \/ HandlerRespond
    \/ EntryStart
    \/ EntryFetch
    \/ EntryAnalyze

Spec == Init /\ [][Next]_vars

-----------------------------------------------------------------------------
(* Properties of a run (Spec) *)

Returned == pc = "done"

StatusCode == IF "statusCode" \in DOMAIN response THEN response.statusCode ELSE 0

HasError == Returned /\ "error" \in DOMAIN response.body
IsSuccess == Returned /\ "success" \in DOMAIN response.body

NothingDispatched ==
    /\ sent = << >>
    /\ calls.send_alert = 0
    /\ calls.send_bulk_alerts = 0
    /\ calls.send_summary = 0

FetchRaised == hos_clocks.exc # "none"

\* C6: when the fetch collaborator raises, the run returns the structured
\* error result (statusCode 500 in handler.main) whose error text is the
\* fault's message, and no alert is sent and no summary is emitted.
C6_FetchFaultIsReported ==
    FetchRaised =>
        /\ Returned
        /\ HasError
        /\ response.body.error = hos_clocks.exc
        /\ prog = "handler" => StatusCode = 500
        /\ calls.analyze = 0
        /\ alerts = << >>
        /\ NothingDispatched

C6_Witness ==
    /\ prog = "handler"
    /\ FetchRaised
    /\ calls.fetch = 1
    /\ StatusCode = 500
    /\ response.body.error = "network unreachable"

C6_WitnessInline ==
    /\ prog = "entrypoint"
    /\ FetchRaised
    /\ Returned /\ response.body.error = "500 Server Error"

\* the override this run was given: the body's pc_threshold_hours in
\* handler.main, the event's in entrypoint.main
Override ==
    IF prog = "handler"
    THEN (IF event.body.kind \in {"dict", "json"}
          THEN event.body.fields.pc_threshold_hours
          ELSE PyMissing)
    ELSE event.pc_threshold_hours

\* the run got past the token check and resolved its threshold
ThresholdResolved == pc \in {"fetch", "analyze", "send", "respond"} \/ calls.fetch > 0

\* C7: the run's threshold is the override in the event when one is given
\* (0 included), else PC_THRESHOLD_HOURS of the environment, else 16.0.
C7_ThresholdResolutionOrder ==
    ThresholdResolved =>
        config.pc_threshold_hours =
            (IF Override.t = "num" THEN Override.n
             ELSE IF environ.PC_THRESHOLD_HOURS = PyStr("12") THEN 12 * 100
             ELSE 16 * 100)

\* the k-th smallest element of a set of indices
Kth(idx, k) == CHOOSE i \in idx : Cardinality({j \in idx : j <= i}) = k

\* C8: on a successful run of handler.main over a non-empty snapshot,
\* drivers_checked is the number of fetched records, drivers_in_pc the number
\* of results with is_currently_in_pc, alerts_triggered the number of results
\* with exceeds_threshold, so alerts_triggered <= drivers_in_pc <=
\* drivers_checked; and the alerts of the response are the results with
\* exceeds_threshold, in the order of the fetched records.
C8_SummaryCounts ==
    prog = "handler" /\ IsSuccess =>
        LET sm == response.body.summary
            n == Len(hos_clocks.list)
            inpc == {i \in 1..n : results.list[i].is_currently_in_pc}
            over == {i \in 1..n : results.list[i].exceeds_threshold}
            out == response.body.alerts
        IN  /\ n > 0
            /\ Len(results.list) = n
            /\ \A i \in 1..n : results.list[i].driver_id = hos_clocks.list[i].driver.id
            /\ sm.drivers_checked = n
            /\ sm.drivers_in_pc = Cardinality(inpc)
            /\ sm.alerts_triggered = Cardinality(over)
            /\ sm.alerts_triggered <= sm.drivers_in_pc
            /\ sm.drivers_in_pc <= sm.drivers_checked
            /\ Len(out) = Cardinality(over)
            /\ \A k \in 1..Len(out) :
                  /\ out[k].driver_id = results.list[Kth(over, k)].driver_id
                  /\ out[k].exceeds_threshold
                  /\ out[k].consecutive_pc_hours =
                        results.list[Kth(over, k)].consecutive_pc_hours

\* three records, one of them in PC for 17 hours, threshold 16.0
C8_Witness ==
    /\ prog = "handler" /\ IsSuccess
    /\ Len(hos_clocks.list) = 3
    /\ config.pc_threshold_hours = 16 * 100
    /\ current_time = 17 * 60 * 60
    /\ hos_clocks.list[1].currentDutyStatus.hosStatusType = "driving"
    /\ hos_clocks.list[2].currentDutyStatus = [hosStatusType |-> "personalConveyance",
                                               hosStatusStartTime |-> StartIso(0, "Z")]
    /\ hos_clocks.list[3].currentDutyStatus.hosStatusType = "driving"
    /\ response.body.summary.drivers_in_pc = 1
    /\ response.body.summary.alerts_triggered = 1
    /\ response.body.alerts[1].driver_id = "d2"

\* C9 as stated: every successful run's alert_delivery is a run-level summary
\* with total_alerts = alerts_triggered and successful + failed = total_alerts,
\* for every number of violations, zero included.
C9_DeliveryAlwaysSummary ==
    prog = "handler" /\ IsSuccess =>
        /\ response.body.alert_delivery.t = "summary"
        /\ response.body.alert_delivery.total_alerts = response.body.summary.alerts_triggered
        /\ response.body.alert_delivery.successful + response.body.alert_delivery.failed
              = response.body.alert_delivery.total_alerts

\* C9, amended: a successful run with at least one violation returns the
\* run-level summary with total_alerts = alerts_triggered and successful +
\* failed = total_alerts; with no violation alert_delivery is None and
\* send_bulk_alerts was not invoked.
C9_DeliverySummaryWhenAlerts ==
    prog = "handler" /\ IsSuccess =>
        LET d == response.body.alert_delivery
            n == response.body.summary.alerts_triggered
        IN  IF n > 0
            THEN /\ d.t = "summary"
                 /\ d.total_alerts = n
                 /\ d.successful + d.failed = d.total_alerts
                 /\ Len(d.results) = n
                 /\ calls.send_bulk_alerts = 1
            ELSE /\ d = [t |-> "None"]
                 /\ calls.send_bulk_alerts = 0
                 /\ sent = << >>

\* two violations, one of them with a failed webhook delivery
C9_Witness ==
    /\ prog = "handler" /\ IsSuccess
    /\ response.body.summary.alerts_triggered = 2
    /\ response.body.alert_delivery.failed = 1
    /\ response.body.alert_delivery.successful = 1

\* a successful run without violations: alert_delivery is None
C9_WitnessNoAlerts ==
    /\ prog = "handler" /\ IsSuccess
    /\ response.body.summary.alerts_triggered = 0
    /\ response.body.alert_delivery = [t |-> "None"]

\* no API token can be found by this run
NoTokenAvailable ==
    IF prog = "handler"
    THEN context.samsara_api_token \in {PyMissing, PyNone, PyStr("")}
    ELSE /\ \/ secrets.raised
            \/ /\ secrets.SAMSARA_API_KEY = PyMissing
               /\ secrets.SAMSARA_API_TOKEN = PyMissing
         /\ event.api_key = PyMissing
         /\ environ.SAMSARA_API_KEY = PyNone

\* C10: when no API token is available the run returns the unauthorized
\* result (statusCode 401 in handler.main, the "No API key" error in
\* entrypoint.main) and never invokes the fetch collaborator, the analyzer
\* or the dispatcher.
C10_NoTokenNoFetch ==
    NoTokenAvailable =>
        /\ calls.fetch = 0
        /\ calls.analyze = 0
        /\ NothingDispatched
        /\ pc \in {"start", "done"}
        /\ Returned =>
              IF prog = "handler"
              THEN StatusCode = 401 /\ HasError
              ELSE response.body.error = "No API key"

\* handler.main returned 401 for a context whose token is the empty string
C10_Witness ==
    /\ prog = "handler"
    /\ context.samsara_api_token = PyStr("")
    /\ Returned /\ StatusCode = 401

C10_WitnessInline ==
    /\ prog = "entrypoint"
    /\ NoTokenAvailable /\ secrets.raised
    /\ Returned /\ calls.get_secrets = 1

\* the fetch collaborator returned, and returned no record
FetchedNothing == calls.fetch > 0 /\ hos_clocks.exc = "none" /\ hos_clocks.list = << >>

\* C11: when the fetch collaborator returns zero records, handler.main
\* returns the "No drivers found" result with statusCode 200,
\* drivers_checked = 0 and alerts_triggered = 0, and neither
\* send_bulk_alerts / send_alert nor send_summary is invoked.
C11_NoDriversNoDispatch ==
    prog = "handler" /\ FetchedNothing =>
        /\ Returned
        /\ StatusCode = 200
        /\ "message" \in DOMAIN response.body
        /\ response.body.message = "No drivers found"
        /\ response.body.drivers_checked = 0
        /\ response.body.alerts_triggered = 0
        /\ calls.analyze = 0
        /\ NothingDispatched

C11_Witness ==
    /\ prog = "handler"
    /\ FetchedNothing
    /\ Returned /\ StatusCode = 200
    /\ response.body.message = "No drivers found"
    /\ calls.send_summary = 0

-----------------------------------------------------------------------------
(* Both mains on one snapshot: handler.main after its fetch, then
   entrypoint.main after its fetch, at one reference time and threshold *)

CoreRecords == RunRecords \cup {<<PC_STATUS, StartNonString>>}

CoreClockLists == {AsClocks(f) : f \in ClockListsOver(CoreRecords, MaxClocks)}

InitCore ==
    /\ pc = "start"
    /\ prog = "both"
    /\ event = NoEvent
    /\ environ = NoEnviron
    /\ context = NoContext
    /\ secrets = NoSecrets
    /\ \E thr \in ThresholdValues :
          /\ config = [NoConfig EXCEPT !.pc_threshold_hours = thr]
          /\ analyzer = [threshold_hours |-> thr]
    /\ \E clocks \in CoreClockLists : hos_clocks = [exc |-> "none", list |-> clocks]
    /\ current_time \in RunNowValues
    /\ results = NoResults
    /\ alerts = << >>
    /\ alerter = DefaultAlerter
    /\ faults = << >>
    /\ sent = << >>
    /\ delivery = NoDelivery
    /\ calls = NoCalls
    /\ response = NoResponse
    /\ entry_response = NoResponse

\* handler.main from the fetched list to its return, the body being absent
CoreHandlerMain ==
    /\ prog = "both" /\ pc = "start"
    /\ LET clocks == hos_clocks.list
           rs == analyze_all_clocks(clocks, current_time, analyzer.threshold_hours)
           al == get_alerts(rs.list)
           alert_payloads == [i \in 1..Len(al) |-> to_dict(al[i])]
       IN  IF NoClocks(clocks)
           THEN /\ response' = [statusCode |-> 200,
                                body |-> [message |-> "No drivers found",
                                          drivers_checked |-> 0,
                                          alerts_triggered |-> 0]]
                /\ UNCHANGED << results, alerts, faults, sent, delivery, calls >>
           ELSE IF rs.exc # "none"
           THEN /\ results' = rs
                /\ response' = ErrorResponse(rs.exc)
                /\ calls' = [calls EXCEPT !.analyze = @ + 1]
                /\ UNCHANGED << alerts, faults, sent, delivery >>
           ELSE \E fault_list \in [1..Len(al) -> FaultsOf(alerter)] :
                   LET r == send_bulk_alerts(alerter, alert_payloads, fault_list)
                       bulk == al # << >>
                   IN  /\ results' = rs
                       /\ alerts' = al
                       /\ faults' = IF bulk THEN fault_list ELSE faults
                       /\ delivery' = IF bulk THEN r.summary ELSE NoDelivery
                       /\ sent' = IF bulk THEN sent \o r.log ELSE sent
                       /\ calls' = [calls EXCEPT
                                       !.analyze = @ + 1,
                                       !.send_bulk_alerts = @ + (IF bulk THEN 1 ELSE 0),
                                       !.send_alert = @ + (IF bulk THEN Len(al) ELSE 0),
                                       !.send_summary = @ + 1]
                       /\ response' =
                             [statusCode |-> 200,
                              body |-> [success |-> TRUE,
                                        summary |-> HandlerSummary(clocks, rs.list, al,
                                                        config.pc_threshold_hours),
                                        alerts |-> alert_payloads,
                                        alert_delivery |->
                                            IF bulk THEN r.summary ELSE NoDelivery]]
    /\ pc' = "inline"
    /\ UNCHANGED << prog, event, environ, context, secrets, config, analyzer, hos_clocks,
                    current_time, alerter, entry_response >>

\* entrypoint.main from the fetched list to its return
CoreEntryMain ==
    /\ prog = "both" /\ pc = "inline"
    /\ entry_response' = EntryResult(hos_clocks.list, current_time,
                                     config.pc_threshold_hours)
    /\ pc' = "done"
    /\ UNCHANGED << prog, event, environ, context, secrets, config, analyzer, hos_clocks,
                    current_time, results, alerts, alerter, faults, sent, delivery,
                    calls, response >>

NextCore ==
    \/ CoreHandlerMain
    \/ CoreEntryMain

SpecCore == InitCore /\ [][NextCore]_vars

\* what a returned value reports of the core; the "No drivers found" result
\* carries zero counts and no alert
CoreReport(resp) ==
    IF "summary" \in DOMAIN resp.body
    THEN [reported |-> TRUE,
          drivers_checked |-> resp.body.summary.drivers_checked,
          drivers_in_pc |-> resp.body.summary.drivers_in_pc,
          alerts_triggered |-> resp.body.summary.alerts_triggered,
          ids |-> [i \in 1..Len(resp.body.alerts) |-> resp.body.alerts[i].driver_id]]
    ELSE IF "error" \notin DOMAIN resp.body /\ "message" \in DOMAIN resp.body
    THEN [reported |-> TRUE, drivers_checked |-> 0, drivers_in_pc |-> 0,
          alerts_triggered |-> 0, ids |-> << >>]
    ELSE [reported |-> FALSE, drivers_checked |-> 0, drivers_in_pc |-> 0,
          alerts_triggered |-> 0, ids |-> << >>]

\* C12: on every snapshot, at the same reference time and threshold,
\* handler.main with PCAnalyzer and entrypoint.main report the same
\* drivers_checked, drivers_in_pc, alerts_triggered and the same violating
\* driver ids in the same order.
C12_CoresEquivalent ==
    prog = "both" /\ pc = "done" =>
        /\ CoreReport(response).reported
        /\ CoreReport(response) = CoreReport(entry_response)

-----------------------------------------------------------------------------
(* get_config and the construction of the alerter, over every combination of
   body and environment *)

ConfigBodies ==
    {AbsentBody, Body("badjson", EmptyDict)}
        \cup {Body(kind, BodyFields(thr, tags, hook, mail, PyMissing)) :
                kind \in {"dict", "json"},
                thr \in {PyMissing, PyNum(8 * Hundredths)},
                tags \in {PyMissing, PyList(<<"b1">>)},
                hook \in {PyMissing, PyStr("https://hook")},
                mail \in {PyMissing, PyList(<<"ops@fleet">>)}}

ConfigEnvirons ==
    {Environ(thr, tags, hook, mail, PyNone) :
        thr \in {PyNone, PyStr("12")},
        tags \in {PyNone, PyStr(""), PyStr("t1,t2")},
        hook \in {PyNone, PyStr("https://env")},
        mail \in {PyNone, PyStr(""), PyStr("env@fleet")}}

InitConfig ==
    /\ pc = "start"
    /\ prog = "config"
    /\ \E b \in ConfigBodies : event = Event(b, PyMissing, PyMissing)
    /\ environ \in ConfigEnvirons
    /\ context = NoContext
    /\ secrets = NoSecrets
    /\ config = NoConfig
    /\ analyzer = DefaultAnalyzer
    /\ hos_clocks = NoFetch
    /\ current_time = 0
    /\ results = NoResults
    /\ alerts = << >>
    /\ alerter = DefaultAlerter
    /\ faults = << >>
    /\ sent = << >>
    /\ delivery = NoDelivery
    /\ calls = NoCalls
    /\ response = NoResponse
    /\ entry_response = NoResponse

\* config = get_config(event)
CallGetConfig ==
    /\ prog = "config" /\ pc = "start"
    /\ config' = get_config(event, environ)
    /\ pc' = "clients"
    /\ UNCHANGED << prog, event, environ, context, secrets, analyzer, hos_clocks,
                    current_time, results, alerts, alerter, faults, sent, delivery,
                    calls, response, entry_response >>

\* PCAnalyzer(threshold_hours=...) and Alerter(AlertConfig(...)) of the config
InitializeClients ==
    /\ prog = "config" /\ pc = "clients"
    /\ analyzer' = [threshold_hours |-> config.pc_threshold_hours]
    /\ alerter' = AlertConfig(config.webhook_url, config.email_recipients, TRUE)
    /\ pc' = "done"
    /\ UNCHANGED << prog, event, environ, context, secrets, config, hos_clocks,
                    current_time, results, alerts, faults, sent, delivery, calls,
                    response, entry_response >>

NextConfig ==
    \/ CallGetConfig
    \/ InitializeClients

SpecConfig == InitConfig /\ [][NextConfig]_vars

\* the body as a dict, or nothing where there is none to read
SuppliedBody == IF event.body.kind \in {"dict", "json"} THEN event.body.fields ELSE EmptyDict

Supplied(v) == Truthy(DictGet(v))

\* the list an environment variable stands for, None when it is not set
EnvList(v) == IF Truthy(v) THEN PyList(SplitComma(v.s)) ELSE PyNone

\* C13: get_config takes each setting from the event body first and from the
\* environment variable only when the body does not supply it; a
\* driver_tag_ids or email_recipients value of the body is the value
\* returned whether or not DRIVER_TAG_IDS / EMAIL_RECIPIENTS is set, and the
\* email channel is enabled whenever the body supplies recipients.
C13_BodyBeforeEnvironment ==
    prog = "config" /\ pc = "done" =>
        LET b == SuppliedBody
        IN  /\ config.pc_threshold_hours =
                  IF Supplied(b.pc_threshold_hours)
                  THEN FloatOf(b.pc_threshold_hours)
                  ELSE FloatOf(EnvironGetDefault(environ.PC_THRESHOLD_HOURS,
                                                 PyNum(DEFAULT_PC_THRESHOLD_HOURS)))
            /\ config.webhook_url =
                  IF Supplied(b.webhook_url) THEN b.webhook_url ELSE environ.WEBHOOK_URL
            /\ config.driver_tag_ids =
                  IF Supplied(b.driver_tag_ids)
                  THEN b.driver_tag_ids
                  ELSE EnvList(environ.DRIVER_TAG_IDS)
            /\ config.email_recipients =
                  IF Supplied(b.email_recipients)
                  THEN b.email_recipients
                  ELSE EnvList(environ.EMAIL_RECIPIENTS)
            /\ Supplied(b.email_recipients) => ChannelEnabled(alerter, "email")

-----------------------------------------------------------------------------
(* The error result of handler.main and the alerts of the same run *)

\* C14: in handler.main, for every event (body absent, a dict, or a JSON
\* string) and every fetch outcome, a run that returns the error result
\* (statusCode 500) has dispatched no alert: send_bulk_alerts is invoked only
\* in runs that end with the success result.
C14_ErrorResultNoAlerts ==
    prog = "handler" /\ Returned /\ StatusCode = 500 =>
        /\ calls.send_bulk_alerts = 0
        /\ calls.send_alert = 0
        /\ sent = << >>

====
